---------------------------- MODULE Spec2Model ----------------------------
(***************************************************************************)
(* Model of the HumanInTheLoop demo scripts:                               *)
(*   - extract_confidence_score, query_knowledge_base (both variants),     *)
(*     the mock handoff_to_user / Agent.query of kb_chatbot_example.py,    *)
(*   - gather_requirements of requirements_demo.py as a state machine.     *)
(* Text is modelled as a sequence of atoms (indivisible pieces of a        *)
(* string); every string operation of the code (lower, strip, replace,     *)
(* the two regular expressions, str) is an operator on such sequences.     *)
(***************************************************************************)
EXTENDS Integers, Sequences, FiniteSets, TLC

VARIABLES
    \* extract_confidence_score: the value passed in, the results of the calls
    ext_in, ext_outs,
    \* query_knowledge_base: which module's variant runs, the module flag
    \* USING_MOCK, what the retrieval API does, the position in the function,
    \* the response held, the number of retrieve calls, the value returned and
    \* the exception that left the function
    kb_impl, USING_MOCK, kb_env, kb_pc, kb_response, kb_api_calls, kb_ret, kb_raised

VARIABLES
    \* gather_requirements: the position in the function; the arguments
    \* project_name and use_kb; the module globals current_section and
    \* responses; the locals that outlive a step
    pc, project_name, use_kb, current_section, responses,
    eval_i, confidence_scores, validation_issues, requirements_doc, final_doc,
    evaluation_result, additional_text, matches, review_text, update_prompt,
    save_to_db_text, table,
    \* the world around it: the output files written, the DynamoDB table
    \* (whether it exists, the items put), the value returned
    files, db_table, db_items, result,
    \* history: the text each section checkpoint returned, the external calls
    \* made so far, the number of non-default inputs drawn so far
    returned, trace, odd

ext_vars == <<ext_in, ext_outs>>
VARIABLES q_pc, q_tools, q_calls, q_handoffs, q_printed, q_ret, q_raised

q_vars == <<q_pc, q_tools, q_calls, q_handoffs, q_printed, q_ret, q_raised>>

VARIABLES s_pc, s_i, s_seen, s_hit

s_vars == <<s_pc, s_i, s_seen, s_hit>>

g_vars == <<pc, project_name, use_kb, current_section, responses, eval_i,
            confidence_scores, validation_issues, requirements_doc, final_doc,
            evaluation_result, additional_text, matches, review_text, update_prompt,
            save_to_db_text, table, files, db_table, db_items, result, returned, trace, odd>>
kb_vars == <<kb_impl, USING_MOCK, kb_env, kb_pc, kb_response, kb_api_calls, kb_ret, kb_raised>>

(***************************************************************************)
(* Bounds of the model.                                                    *)
(***************************************************************************)
\* an evaluator text is a concatenation of at most MaxParts phrases
MaxParts == 2
\* extract_confidence_score is called at most MaxCalls times on one value
MaxCalls == 2
\* a run of gather_requirements draws at most MaxOdd non-default inputs among
\* the section replies, the additional information and the evaluator outputs
MaxOdd == 1
\* a classifier output is a concatenation of at most MaxBlocks phrases
MaxBlocks == 2
MaxTools == 2

(***************************************************************************)
(* Generic text helpers.                                                   *)
(***************************************************************************)
SeqsUpTo(S, n) == UNION {[1..k -> S] : k \in 0..n}

\* str.lower() on one atom: only the atoms that carry upper-case letters change
LowerAtom(a) ==
    CASE a = "Confidence" -> "confidence"
      [] a = "Score"      -> "score"
      [] a = "No"         -> "no"
      [] a = "NO"         -> "no"
      [] a = "N"          -> "n"
      [] a = "None"       -> "none"
      [] a = "Yes"        -> "yes"
      [] a = "YES"        -> "yes"
      [] a = "Y"          -> "y"
      [] a = "OK"         -> "ok"
      [] a = "Looks"      -> "looks"
      [] a = "Approved"   -> "approved"
      [] a = "My"         -> "my"
      [] a = "App"        -> "app"
      [] a = "Unnamed"    -> "unnamed"
      [] a = "Project"    -> "project"
      [] OTHER            -> a

\* str.lower()
Lower(s) == [i \in 1..Len(s) |-> LowerAtom(s[i])]

\* s[i..] starts with t
StartsAt(s, i, t) ==
    /\ i + Len(t) - 1 <= Len(s)
    /\ \A k \in 1..Len(t) : s[i + k - 1] = t[k]

\* Python's  t in s  for strings
Contains(s, t) == \E i \in 1..(Len(s) + 1) : StartsAt(s, i, t)

\* Python's  s.replace(old, new): left to right, non-overlapping, one pass
RECURSIVE ReplaceFrom(_, _, _, _)
ReplaceFrom(s, i, old, new) ==
    IF i > Len(s) THEN <<>>
    ELSE IF StartsAt(s, i, old) THEN new \o ReplaceFrom(s, i + Len(old), old, new)
    ELSE <<s[i]>> \o ReplaceFrom(s, i + 1, old, new)

Replace(s, old, new) == ReplaceFrom(s, 1, old, new)

\* str.strip(): leading and trailing white space removed
WhiteSpace == {" ", "\n"}

RECURSIVE LStrip(_)
LStrip(s) == IF s # <<>> /\ Head(s) \in WhiteSpace THEN LStrip(Tail(s)) ELSE s

RECURSIVE RStrip(_)
RStrip(s) ==
    IF s # <<>> /\ s[Len(s)] \in WhiteSpace THEN RStrip(SubSeq(s, 1, Len(s) - 1)) ELSE s

Strip(s) == RStrip(LStrip(s))

\* a Python dict: the (key, value) pairs in insertion order
DictKeys(d) == [i \in 1..Len(d) |-> d[i][1]]
DictHas(d, k) == \E i \in 1..Len(d) : d[i][1] = k
DictGet(d, k) == d[CHOOSE i \in 1..Len(d) : d[i][1] = k][2]
DictSet(d, k, v) ==
    IF DictHas(d, k)
    THEN [i \in 1..Len(d) |-> IF d[i][1] = k THEN <<k, v>> ELSE d[i]]
    ELSE Append(d, <<k, v>>)

(***************************************************************************)
(* extract_confidence_score (requirements_demo.py 281-305).                *)
(* A score is an exact decimal  num / den,  den a power of ten, kept       *)
(* without trailing zeros (7.0 and 7 are the same score).                  *)
(***************************************************************************)
DigitAtoms == {"0", "1", "2", "3", "4", "5", "6", "7", "8", "9"}

DigitVal(a) ==
    CASE a = "0" -> 0 [] a = "1" -> 1 [] a = "2" -> 2 [] a = "3" -> 3
      [] a = "4" -> 4 [] a = "5" -> 5 [] a = "6" -> 6 [] a = "7" -> 7
      [] a = "8" -> 8 [] a = "9" -> 9

IsDigitAt(s, i) == i <= Len(s) /\ s[i] \in DigitAtoms

\* first index >= i that does not hold a digit: the end of  \d+  (greedy)
RECURSIVE DigitsEnd(_, _)
DigitsEnd(s, i) == IF IsDigitAt(s, i) THEN DigitsEnd(s, i + 1) ELSE i

\* first index >= i that does not hold white space: the end of  \s*
RECURSIVE SpaceEnd(_, _)
SpaceEnd(s, i) == IF i <= Len(s) /\ s[i] \in WhiteSpace THEN SpaceEnd(s, i + 1) ELSE i

\* end of  \d+(?:\.\d+)?  started at i, where s[i] is a digit
NumberEnd(s, i) ==
    LET e == DigitsEnd(s, i)
    IN IF e <= Len(s) /\ s[e] = "." /\ IsDigitAt(s, e + 1)
       THEN DigitsEnd(s, e + 1) ELSE e

RECURSIVE Pow10(_)
Pow10(k) == IF k = 0 THEN 1 ELSE 10 * Pow10(k - 1)

\* the integer written by the digits s[i..j-1]
RECURSIVE DigitsVal(_, _, _)
DigitsVal(s, i, j) ==
    IF j <= i THEN 0 ELSE 10 * DigitsVal(s, i, j - 1) + DigitVal(s[j - 1])

RECURSIVE Normal(_)
Normal(r) ==
    IF r.den > 1 /\ r.num % 10 = 0
    THEN Normal([num |-> r.num \div 10, den |-> r.den \div 10]) ELSE r

\* float(text) for the text s[i..j-1] matched by  \d+(?:\.\d+)?
Float(s, i, j) ==
    LET e == DigitsEnd(s, i)
    IN IF e = j THEN [num |-> DigitsVal(s, i, j), den |-> 1]
       ELSE Normal([num |-> DigitsVal(s, i, e) * Pow10(j - e - 1) + DigitsVal(s, e + 1, j),
                    den |-> Pow10(j - e - 1)])

Dec(n) == [num |-> n, den |-> 1]
ScoreLT(a, b) == a.num * b.den < b.num * a.den

\* (?:confidence|score):\s*(\d+(?:\.\d+)?)  matches at index p
LabelMatchAt(s, p) ==
    /\ p + 1 <= Len(s)
    /\ s[p] \in {"confidence", "score"}
    /\ s[p + 1] = ":"
    /\ IsDigitAt(s, SpaceEnd(s, p + 2))

\* (\d+(?:\.\d+)?)/10  matches at index p
SlashMatchAt(s, p) ==
    /\ IsDigitAt(s, p)
    /\ StartsAt(s, NumberEnd(s, p), <<"/", "1", "0">>)

\* re.search: the leftmost index where the pattern matches, 0 when none
FirstLabel(s) ==
    IF \E p \in 1..Len(s) : LabelMatchAt(s, p)
    THEN CHOOSE p \in 1..Len(s) :
            LabelMatchAt(s, p) /\ \A q \in 1..(p - 1) : ~LabelMatchAt(s, q)
    ELSE 0

FirstSlash(s) ==
    IF \E p \in 1..Len(s) : SlashMatchAt(s, p)
    THEN CHOOSE p \in 1..Len(s) :
            SlashMatchAt(s, p) /\ \A q \in 1..(p - 1) : ~SlashMatchAt(s, q)
    ELSE 0

\* the default of line 302
DefaultScore == Dec(7)

\* the two patterns tried in the other order
ParsedScoreSlashFirst(text) ==
    LET s == Lower(text)
        p == FirstLabel(s)
        q == FirstSlash(s)
    IN IF q # 0 THEN Float(s, q, NumberEnd(s, q))
       ELSE IF p # 0
       THEN LET g == SpaceEnd(s, p + 2) IN Float(s, g, NumberEnd(s, g))
       ELSE DefaultScore

\* the two patterns as one alternation: the occurrence that starts first wins
ParsedScoreLeftmost(text) ==
    LET s == Lower(text)
        p == FirstLabel(s)
        q == FirstSlash(s)
    IN IF p # 0 /\ (q = 0 \/ p < q)
       THEN LET g == SpaceEnd(s, p + 2) IN Float(s, g, NumberEnd(s, g))
       ELSE IF q # 0 THEN Float(s, q, NumberEnd(s, q))
       ELSE DefaultScore

\* lines 292-302: the labelled pattern first, the N/10 pattern only if it fails
ParsedScore(text) ==
    LET s == Lower(text)
        p == FirstLabel(s)
        q == FirstSlash(s)
    IN IF p # 0
       THEN LET g == SpaceEnd(s, p + 2) IN Float(s, g, NumberEnd(s, g))
       ELSE IF q # 0 THEN Float(s, q, NumberEnd(s, q))
       ELSE DefaultScore

\* a variant of line 305 that returns the parsed number as it is
ClampNone(c) == c

\* line 305: max(0.0, min(10.0, confidence_score))
Clamp(c) ==
    LET m == IF ScoreLT(c, Dec(10)) THEN c ELSE Dec(10)
    IN IF ScoreLT(Dec(0), m) THEN m ELSE Dec(0)

\* a value handed to extract_confidence_score: a string, a tool-result dict
\* whose content list holds a text, or a dict without such a list
StrVal(t) == [kind |-> "str", text |-> t]
ToolResult(t) == [kind |-> "dict", text |-> t]
BareDict == [kind |-> "dict_nocontent", text |-> <<>>]

extract_confidence_score(evaluation_text) ==
    IF evaluation_text.kind = "dict_nocontent" THEN DefaultScore
    ELSE Clamp(ParsedScore(evaluation_text.text))

(***************************************************************************)
(* query_knowledge_base: requirements_demo.py 187-259 and                  *)
(* kb_chatbot_example.py 111-165.                                          *)
(***************************************************************************)
\* 'numberOfResults': 3 of the retrieval configuration
NumberOfResults == 3

NoValue == <<"<no value>">>

\* one retrieval result: its content text (or none) and its documentMetadata
Contents == {"alpha", "beta", "missing"}
Metadata == {"absent", "source", "location", "both"}
RetrievalResults == [content : Contents, meta : Metadata]

\* what bedrock_agent_client.retrieve does: a response with a result list, a
\* response without the 'retrievalResults' key, or an exception
RetrievalOutcomes ==
    {[kind |-> "response", results |-> rs] : rs \in SeqsUpTo(RetrievalResults, NumberOfResults)}
    \cup {[kind |-> k, results |-> <<>>] :
            k \in {"no_key", "ClientError", "Exception", "KeyboardInterrupt"}}

\* str(e) of the exception raised
ErrorText(kind) ==
    CASE kind = "ClientError" -> <<"ResourceNotFoundException">>
      [] kind = "Exception"   -> <<"connection reset">>
      [] OTHER                -> <<"interrupt">>

NoInfoDemo == <<"No information found in the knowledge base", " for this query", ".">>
NoInfoChatbot == <<"No information found in the knowledge base", ".">>
ErrorPrefix == <<"Error querying knowledge base", ": ">>

\* the sample text lines 151-163 return
MockData ==
    <<"\n", "Source ", "1", ":\n", "sample content", "\n",
      "\n", "Source ", "2", ":\n", "sample content", "\n",
      "\n", "Source ", "3", ":\n", "sample content", "\n">>

\* str(i) for the result numbers
IntText(i) == CASE i = 0 -> "0" [] i = 1 -> "1" [] i = 2 -> "2" [] i = 3 -> "3" [] i = 4 -> "4" [] i = 5 -> "5" [] OTHER -> "n"

\* result.get('content', {}).get('text', 'No content')
ContentText(res) == IF res.content = "missing" THEN "No content" ELSE res.content

\* requirements_demo.py 232-240
SourceLabel(res) ==
    CASE res.meta = "absent"   -> "Unknown source"
      [] res.meta = "source"   -> "test_document.txt"
      [] res.meta = "both"     -> "test_document.txt"
      [] res.meta = "location" -> "s3://bucket/doc"

\* requirements_demo.py 242: f"Source {i} ({source}):\n{content}\n"
BlockDemo(i, res) ==
    <<"Source ", IntText(i), " (", SourceLabel(res), ")", ":\n", ContentText(res), "\n">>

\* kb_chatbot_example.py 140: f"Source {i}:\n{content}\n"
BlockChatbot(i, res) == <<"Source ", IntText(i), ":\n", ContentText(res), "\n">>

\* a variant of Block for enumerate(results) without the start value 1
BlockFromZero(impl, i, res) ==
    IF impl = "requirements_demo" THEN BlockDemo(i - 1, res) ELSE BlockChatbot(i - 1, res)

Block(impl, i, res) ==
    IF impl = "requirements_demo" THEN BlockDemo(i, res) ELSE BlockChatbot(i, res)

\* "\n".join(formatted_results) over results[1..n]
RECURSIVE JoinBlocks(_, _, _)
JoinBlocks(impl, results, n) ==
    IF n = 0 THEN <<>>
    ELSE IF n = 1 THEN Block(impl, 1, results[1])
    ELSE JoinBlocks(impl, results, n - 1) \o <<"\n">> \o Block(impl, n, results[n])

FormatResults(impl, results) == JoinBlocks(impl, results, Len(results))

\* the literal returned for an empty result list (226 / 134)
NoInfoText(impl) == IF impl = "requirements_demo" THEN NoInfoDemo ELSE NoInfoChatbot

\* the except clauses: 250-259, and 144-165 with the USING_MOCK branch
ErrorReturn(impl, using_mock, kind) ==
    IF impl = "kb_chatbot_example" /\ kind = "Exception" /\ using_mock
    THEN MockData
    ELSE ErrorPrefix \o ErrorText(kind)

\* except ClientError / except Exception: KeyboardInterrupt is neither
Handled(kind) == kind \in {"ClientError", "Exception"}

(***************************************************************************)
(* gather_requirements (requirements_demo.py 307-682): values and pure     *)
(* steps.                                                                  *)
(***************************************************************************)
\* lines 66-72
\* evaluator outputs used as inputs below
Conf15 == <<"confidence", ":", " ", "1", "5", "/", "1", "0">>
Neg3 == <<"-", "3", "/", "1", "0">>
ConfScore8 == <<"Confidence", " ", "Score", ":", " ", "8", "/", "1", "0">>

RECURSIVE Concat(_)
Concat(ps) == IF ps = <<>> THEN <<>> ELSE Head(ps) \o Concat(Tail(ps))

SECTIONS ==
    <<"PROJECT SCOPE", "USER STORIES", "TECHNICAL CONSTRAINTS",
      "SUCCESS CRITERIA", "FILE FORMAT SUPPORT">>

SectionNames == {SECTIONS[i] : i \in 1..Len(SECTIONS)}

\* the prefix the handoff tool puts before the typed text (lines 449-451)
Marker == <<"User response ", "received: ">>

\* lines 450-451 (and 472-473, 567-568, 608-609): every occurrence goes
StripMarker(text) == IF Contains(text, Marker) THEN Replace(text, Marker, <<>>) ELSE text

\* the text a section checkpoint returns when the user types a plain answer
DefaultReply(i) == Marker \o <<"answer ", IntText(i)>>

\* other texts a section checkpoint can return: no prefix at all, a typed
\* answer that itself holds the prefix text
OddReplies ==
    { <<"plain answer">>,
      Marker \o <<"see ">> \o Marker \o <<"above">> }

SectionReplies(i) == {DefaultReply(i)} \cup OddReplies

\* what the tool call agent.tool.handoff_to_user can do: return a result,
\* be interrupted while it waits for input, fail, or (stop mode) raise the
\* signal that ends the agent's run, as the handoff_to_user of
\* kb_chatbot_example.py does
HandoffOutcomes(breakout_of_loop) ==
    {"reply", "KeyboardInterrupt", "Exception"}
        \cup (IF breakout_of_loop THEN {"SystemExit"} ELSE {})

\* texts the additional-information checkpoint returns
AdditionalReplies ==
    { Marker \o <<"no">>, Marker \o <<"NO">>, Marker, <<"None">>,
      Marker \o <<"more on scope and stories">> }

\* the usual reply there
DefaultAdditional == Marker \o <<"no">>

\* a variant of line 475 that compares without lower()
NothingToAddExact(text) == text \in {<<"no">>, <<"n">>, <<"none">>, <<>>}

\* line 475
NothingToAdd(text) == Lower(text) \in {<<"no">>, <<"n">>, <<"none">>, <<>>}

\* texts the review checkpoint returns
ReviewReplies ==
    { Marker \o <<"no">>, Marker \o <<"Looks", " ", "good">>, Marker \o <<"add a glossary">> }

\* a variant of line 570 with the shorter list of line 475
NoChangesShort(text) == Lower(text) \in {<<"no">>, <<"n">>, <<"none">>, <<>>}

\* line 570
NoChanges(text) ==
    Lower(text) \in {<<"no">>, <<"n">>, <<"none">>, <<>>, <<"looks", " ", "good">>, <<"approved">>}

\* texts the persistence checkpoint returns
PersistReplies == { Marker \o <<"no">>, Marker \o <<"YES">>, Marker }

\* a variant of line 611 that takes any reply for a yes
AffirmativeAny(text) == TRUE

\* line 611
Affirmative(text) == Lower(text) \in {<<"yes">>, <<"y">>, <<"sure">>, <<"ok">>}

\* line 492: (NAME):\s*(.*?)(?=(?:NAME):|$)  -- a block starts at index p
BlockStartAt(s, p) == p + 1 <= Len(s) /\ s[p] \in SectionNames /\ s[p + 1] = ":"

\* the end of the lazy (.*?): the next block start at or after i, or the end
RECURSIVE InfoEnd(_, _)
InfoEnd(s, i) ==
    IF i > Len(s) \/ BlockStartAt(s, i) THEN i ELSE InfoEnd(s, i + 1)

\* line 493: section_pattern.findall(str(categorized_info)), scanning from i
RECURSIVE FindAllFrom(_, _)
FindAllFrom(s, i) ==
    IF i > Len(s) THEN <<>>
    ELSE IF BlockStartAt(s, i)
         THEN LET g == SpaceEnd(s, i + 2)
                  e == InfoEnd(s, g)
              IN <<<<s[i], SubSeq(s, g, e - 1)>>>> \o FindAllFrom(s, e)
         ELSE FindAllFrom(s, i + 1)

FindAll(s) == FindAllFrom(s, 1)

\* a variant of lines 495-497 with '=' for '+='
RECURSIVE AddInformationOverwrite(_, _, _)
AddInformationOverwrite(d, ms, n) ==
    IF n = 0 THEN d
    ELSE LET before == AddInformationOverwrite(d, ms, n - 1)
             section == ms[n][1]
             info == ms[n][2]
         IN IF DictHas(before, section)
            THEN DictSet(before, section,
                         <<"\n\nAdditional Information:\n">> \o Strip(info))
            ELSE before

\* lines 495-497, for the matches ms[1..n]
RECURSIVE AddInformation(_, _, _)
AddInformation(d, ms, n) ==
    IF n = 0 THEN d
    ELSE LET before == AddInformation(d, ms, n - 1)
             section == ms[n][1]
             info == ms[n][2]
         IN IF DictHas(before, section)
            THEN DictSet(before, section,
                         DictGet(before, section)
                            \o <<"\n\nAdditional Information:\n">> \o Strip(info))
            ELSE before

\* phrases of a classifier output
ClassifierPhrases ==
    { <<"PROJECT SCOPE", ":", " ", "more scope", "\n">>,
      <<"USER STORIES", ":", "more stories">>,
      <<"Here is the ", "project scope", ":", "lower case">> }

ClassifierTexts == {Concat(ps) : ps \in SeqsUpTo(ClassifierPhrases, MaxBlocks)}

\* the fallback text of evaluate_confidence (line 116)
EvalFallback == <<"Confidence", " ", "Score", ":", " ", "7", ".", "0", "/", "1", "0", "\n\n", "Error occurred during evaluation: ", "boom">>

\* the same when the text of the exception holds a labelled score
EvalFallbackLabelled ==
    <<"Confidence", " ", "Score", ":", " ", "7", ".", "0", "/", "1", "0", "\n\n", "Error occurred during evaluation: ", "score", ":", " ", "3">>

\* what agent.tool.evaluate_confidence returns in the usual case, and otherwise
DefaultEvaluation == ToolResult(ConfScore8)
OddEvaluations ==
    { ToolResult(EvalFallback),
      ToolResult(EvalFallbackLabelled),
      ToolResult(Conf15),
      ToolResult(<<"Score", ":", "6", ".", "9">>),
      ToolResult(<<"confidence", ":", " ", "7", ".", "0">>),
      BareDict }

\* a variant of line 521 with <= for <
LowConfidenceOrEqual(score) == ~ScoreLT(Dec(7), score)

\* line 521
LowConfidence(score) == ScoreLT(score, Dec(7))

\* what agent.tool.validate_response returns
ValidationText == ToolResult(<<"1. No measurable goal">>)

\* the document texts
ReqDoc == <<"# Req Doc">>
ErrorDoc == <<"Error occurred during document generation: ", "boom">>
RevisedDoc == <<"# Req Doc", " (revised)">>

\* the value of agent(...): an AgentResult, whose str() is its text
AgentResult(t) == [kind |-> "agent_result", text |-> t]

\* what agent.tool.generate_requirements_doc returns: the tool's string, or
\* the tool-result dict around it; line 185 on a failure of the backing call
GeneratedDocs == {StrVal(ReqDoc), ToolResult(ReqDoc), StrVal(ErrorDoc), ToolResult(ErrorDoc)}

\* a variant of str() that gives the repr of a text
StrRepr(v) == <<"'">> \o v.text \o <<"'">>

\* str(final_doc) of lines 595 and 645
Str(v) ==
    IF v.kind = "dict"
    THEN <<"{'status': 'success', 'content': [{'text': '">> \o v.text \o <<"'}]}">>
    ELSE v.text

NoDoc == [kind |-> "none", text |-> <<>>]

\* lines 352-354: the project name typed at the prompt
NameInputs == { <<>>, <<" ">>, <<" ", "My", " ", "App">> }
TypedName(typed) ==
    IF Strip(typed) = <<>> THEN <<"Unnamed", " ", "Project">> ELSE Strip(typed)

\* line 640
ProjectId(name) == Replace(Lower(name), <<" ">>, <<"_">>)

\* lines 641-649
Item(name, doc, scores, resp) ==
    [project_id |-> ProjectId(name), project_name |-> name, document |-> Str(doc),
     sections |-> [i \in 1..Len(resp) |->
                      <<resp[i][1], resp[i][2],
                        IF DictHas(scores, resp[i][1]) THEN DictGet(scores, resp[i][1]) ELSE Dec(0)>>]]

NoResult == [status |-> "none", total_responses |-> 0, sections_processed |-> 0]

\* lines 660-671
Success(resp) ==
    [status |-> "success", total_responses |-> Len(resp), sections_processed |-> Len(SECTIONS)]

\* lines 673-682: what the except clauses of the function make of an exception
Outcome(exc) ==
    CASE exc = "KeyboardInterrupt" -> [NoResult EXCEPT !.status = "interrupted"]
      [] exc = "Exception"         -> [NoResult EXCEPT !.status = "error"]
      [] OTHER                     -> NoResult

\* the position after the function is left with exception exc
LeftAt(exc) == IF exc \in {"KeyboardInterrupt", "Exception"} THEN "done" ELSE "exited"

\* a variant of line 656 with 'except ClientError'
InnerCatchesClientError(exc) == exc = "ClientError"

\* a variant of line 656 with a bare except
InnerCatchesAll(exc) == TRUE

\* line 656: except Exception around the DynamoDB part
InnerCatches(exc) == exc = "Exception"

Ev(op, sec, brk, out) == [op |-> op, sec |-> sec, brk |-> brk, out |-> out]

(***************************************************************************)
(* gather_requirements: the steps.                                         *)
(***************************************************************************)
\* the checkpoints and their breakout_of_loop argument (lines 444, 467, 561, 604)
HandoffPcs == {"section_handoff", "additional_handoff", "review_handoff", "db_handoff"}
Breakout(at) == at \in {"additional_handoff", "review_handoff", "db_handoff"}

\* the steps inside the try of line 600
InnerPcs == {"db_handoff", "db_table", "db_create", "db_put"}

\* the steps that call the agent, a tool, the file system or DynamoDB
ExternalPcs ==
    {"section_ask", "additional_ask", "categorize", "evaluate", "validate", "generate",
     "revise", "write_file", "db_table", "db_create", "db_put"}

\* the exceptions that can come out of the call made at a step
Raisable(at) ==
    (IF at \in HandoffPcs THEN HandoffOutcomes(Breakout(at)) \ {"reply"} ELSE {})
        \cup (IF at = "name_prompt" THEN {"KeyboardInterrupt", "Exception"} ELSE {})
        \cup (IF at \in ExternalPcs THEN {"Exception"} ELSE {})

\* lines 417-419 for section i (counted from 0)
SectionEntry(kb) == IF kb THEN "section_kb" ELSE "section_ask"

\* a non-default input is drawn only while fewer than MaxOdd were drawn
Budget(isDefault) ==
    /\ isDefault \/ odd < MaxOdd
    /\ odd' = IF isDefault THEN odd ELSE odd + 1

Log(e) == trace' = Append(trace, e)

GatherIdle ==
    /\ pc = "idle" /\ project_name = <<>> /\ use_kb = FALSE /\ current_section = 0
    /\ responses = <<>> /\ eval_i = 0 /\ confidence_scores = <<>>
    /\ validation_issues = <<>> /\ requirements_doc = NoDoc /\ final_doc = NoDoc
    /\ evaluation_result = NoValue /\ additional_text = NoValue /\ matches = NoValue
    /\ review_text = NoValue /\ update_prompt = NoValue /\ save_to_db_text = NoValue /\ table = "none" /\ files = <<>> /\ db_table = "unknown"
    /\ db_items = <<>> /\ result = NoResult /\ returned = <<>> /\ trace = <<>> /\ odd = 0

(***************************************************************************)
(* kb_chatbot_example.py without the Strands packages: the mock            *)
(* handoff_to_user and the mock Agent.query.                               *)
(***************************************************************************)
\* what input() gives the mock handoff: a typed line, or an interrupt
UserInputs ==
    { [kind |-> "text", text |-> <<"more details">>],
      [kind |-> "text", text |-> <<>>],
      [kind |-> "KeyboardInterrupt", text |-> <<>>] }

\* a variant of handoff_to_user that returns in break mode as well
handoff_to_user_returns(inp, breakout_of_loop) ==
    IF inp.kind # "text"
    THEN [kind |-> "raise", value |-> <<inp.kind>>]
    ELSE [kind |-> "return", value |-> inp.text]

\* lines 33-49
handoff_to_user(inp, breakout_of_loop) ==
    IF inp.kind # "text"
    THEN [kind |-> "raise", value |-> <<inp.kind>>]
    ELSE IF breakout_of_loop
         THEN [kind |-> "raise", value |-> <<"SystemExit">>]
         ELSE [kind |-> "return", value |-> inp.text]

ToolNames == {"handoff_to_user", "query_knowledge_base"}

\* the tools an Agent is built with (lines 54-56; main passes both)
ToolLists == SeqsUpTo(ToolNames, MaxTools)

\* for tool in self.tools: if tool.__name__ == name
HasTool(tools, name) == \E i \in 1..Len(tools) : tools[i] = name

Call(tool, breakout_of_loop) == [tool |-> tool, breakout_of_loop |-> breakout_of_loop]

\* one call of handoff_to_user: its mode, what input() gave, what came out
Handoff(breakout_of_loop, inp, out) ==
    [breakout_of_loop |-> breakout_of_loop, typed |-> inp, outcome |-> out]

\* line 108
Thanks == <<"Thank you for using the Knowledge Base Chatbot with Human Handoff!">>

QueryIdle ==
    /\ q_pc = "idle" /\ q_tools = <<>> /\ q_calls = <<>> /\ q_handoffs = <<>> /\ q_printed = <<>>
    /\ q_ret = <<>> /\ q_raised = <<>>

(***************************************************************************)
(* Two runs of gather_requirements in one process, on the module-level     *)
(* responses and current_section.                                          *)
(***************************************************************************)
Runs == {1, 2}
Other(r) == 3 - r

\* the plain answer typed in run r for the i-th section
RunAnswer(r, i) == <<"run ", IntText(r), " answer ", IntText(i)>>

SharedIdle == s_pc = <<>> /\ s_i = <<>> /\ s_seen = <<>> /\ s_hit = <<>>

ExtractIdle == ext_in = BareDict /\ ext_outs = <<>>

KBIdle ==
    /\ kb_impl = "none" /\ USING_MOCK = FALSE /\ kb_env = [kind |-> "no_key", results |-> <<>>]
    /\ kb_pc = "idle" /\ kb_response = <<>> /\ kb_api_calls = 0
    /\ kb_ret = NoValue /\ kb_raised = "none"

InitKB ==
    /\ ExtractIdle
    /\ GatherIdle
    /\ QueryIdle
    /\ SharedIdle
    /\ kb_impl \in {"requirements_demo", "kb_chatbot_example"}
    /\ USING_MOCK \in BOOLEAN
    /\ kb_env \in RetrievalOutcomes
    /\ kb_pc = "call"
    /\ kb_response = <<>>
    /\ kb_api_calls = 0
    /\ kb_ret = NoValue
    /\ kb_raised = "none"

\* 207-222 / 120-132: the API call returns and the result list is taken
KBRetrieve ==
    /\ kb_pc = "call"
    /\ kb_env.kind \in {"response", "no_key"}
    /\ kb_api_calls' = kb_api_calls + 1
    /\ kb_response' = kb_env.results
    /\ kb_pc' = "results"
    /\ UNCHANGED <<kb_impl, USING_MOCK, kb_env, kb_ret, kb_raised, ext_vars, g_vars, q_vars, s_vars>>

\* the API call raises
KBRetrieveRaises ==
    /\ kb_pc = "call"
    /\ kb_env.kind \in {"ClientError", "Exception", "KeyboardInterrupt"}
    /\ kb_api_calls' = kb_api_calls + 1
    /\ kb_pc' = "except"
    /\ UNCHANGED <<kb_impl, USING_MOCK, kb_env, kb_response, kb_ret, kb_raised, ext_vars, g_vars, q_vars, s_vars>>

\* 223-226 / 133-134: if not results
KBNoResults ==
    /\ kb_pc = "results"
    /\ kb_response = <<>>
    /\ kb_ret' = NoInfoText(kb_impl)
    /\ kb_pc' = "done"
    /\ UNCHANGED <<kb_impl, USING_MOCK, kb_env, kb_response, kb_api_calls, kb_raised, ext_vars, g_vars, q_vars, s_vars>>

\* 228-248 / 136-142
KBFormat ==
    /\ kb_pc = "results"
    /\ kb_response # <<>>
    /\ kb_ret' = FormatResults(kb_impl, kb_response)
    /\ kb_pc' = "done"
    /\ UNCHANGED <<kb_impl, USING_MOCK, kb_env, kb_response, kb_api_calls, kb_raised, ext_vars, g_vars, q_vars, s_vars>>

\* 250-259 / 144-165
KBExcept ==
    /\ kb_pc = "except"
    /\ Handled(kb_env.kind)
    /\ kb_ret' = ErrorReturn(kb_impl, USING_MOCK, kb_env.kind)
    /\ kb_pc' = "done"
    /\ UNCHANGED <<kb_impl, USING_MOCK, kb_env, kb_response, kb_api_calls, kb_raised, ext_vars, g_vars, q_vars, s_vars>>

\* an exception no except clause names leaves the function
KBPropagate ==
    /\ kb_pc = "except"
    /\ ~Handled(kb_env.kind)
    /\ kb_raised' = kb_env.kind
    /\ kb_pc' = "done"
    /\ UNCHANGED <<kb_impl, USING_MOCK, kb_env, kb_response, kb_api_calls, kb_ret, ext_vars, g_vars, q_vars, s_vars>>

(***************************************************************************)
(* Specification SpecExtract: extract_confidence_score applied, up to      *)
(* MaxCalls times, to one evaluator value drawn from the phrases below.    *)
(***************************************************************************)
Phrases ==
    { Conf15, Neg3, ConfScore8,
      <<"score", ":", " ", "2">>, <<"Score", ":", "6", ".", "9">>,
      <<"confidence", ":", " ", "7", ".", "0">>,
      <<"4", "/", "1", "0">>, <<".", "5">>, <<"1">>, <<" ">>, <<":">>,
      <<"good">> }

EvalTexts == {Concat(ps) : ps \in SeqsUpTo(Phrases, MaxParts)}

EvalValues == {StrVal(t) : t \in EvalTexts} \cup {ToolResult(t) : t \in EvalTexts}
                \cup {BareDict}

InitExtract ==
    /\ ext_in \in EvalValues
    /\ ext_outs = <<>>
    /\ KBIdle
    /\ GatherIdle
    /\ QueryIdle
    /\ SharedIdle

ExtractCall ==
    /\ Len(ext_outs) < MaxCalls
    /\ ext_outs' = Append(ext_outs, extract_confidence_score(ext_in))
    /\ UNCHANGED <<ext_in, kb_vars, g_vars, q_vars, s_vars>>

vars == <<ext_vars, kb_vars, g_vars, q_vars, s_vars>>

NextExtract == ExtractCall

SpecExtract == InitExtract /\ [][NextExtract]_vars

(***************************************************************************)
(* Specification SpecKB: one call of query_knowledge_base.                 *)
(***************************************************************************)
NextKB ==
    \/ KBRetrieve
    \/ KBRetrieveRaises
    \/ KBNoResults
    \/ KBFormat
    \/ KBExcept
    \/ KBPropagate

SpecKB == InitKB /\ [][NextKB]_vars

\* the globals as an earlier complete run in the same process leaves them
LeftOver == [i \in 1..Len(SECTIONS) |-> <<SECTIONS[i], <<"old answer">>>>]

\* the module as imported (lines 73-74), or as an earlier run left it, and a
\* call of gather_requirements
InitGather ==
    /\ pc = "start"
    /\ project_name \in {<<>>, <<"My", " ", "App">>}
    /\ use_kb \in BOOLEAN
    /\ \/ current_section = 0 /\ responses = <<>>
       \/ current_section = Len(SECTIONS) - 1 /\ responses = LeftOver
    /\ eval_i = 0
    /\ confidence_scores = <<>>
    /\ validation_issues = <<>>
    /\ requirements_doc = NoDoc
    /\ final_doc = NoDoc
    /\ evaluation_result = NoValue
    /\ additional_text = NoValue
    /\ matches = NoValue
    /\ review_text = NoValue
    /\ update_prompt = NoValue
    /\ save_to_db_text = NoValue
    /\ table = "none"
    /\ files = <<>>
    /\ db_table = "unknown"
    /\ db_items = <<>>
    /\ result = NoResult
    /\ returned = <<>>
    /\ trace = <<>>
    /\ odd = 0

\* a variant of GStart without the reset of lines 321-322
GStartNoReset ==
    /\ pc = "start"
    /\ UNCHANGED <<current_section, responses>>
    /\ pc' = IF project_name = <<>> THEN "name_prompt" ELSE SectionEntry(use_kb)
    /\ UNCHANGED <<s_vars, q_vars, ext_vars, kb_vars, evaluation_result, additional_text, matches, update_prompt, save_to_db_text, project_name, use_kb, eval_i, confidence_scores, validation_issues,
                   requirements_doc, final_doc, review_text, table, files, db_table,
                   db_items, result, returned, trace, odd>>

\* lines 318-350
GStart ==
    /\ pc = "start"
    /\ current_section' = 0
    /\ responses' = <<>>
    /\ pc' = IF project_name = <<>> THEN "name_prompt" ELSE SectionEntry(use_kb)
    /\ UNCHANGED <<s_vars, q_vars, ext_vars, kb_vars, evaluation_result, additional_text, matches, update_prompt, save_to_db_text, project_name, use_kb, eval_i, confidence_scores, validation_issues,
                   requirements_doc, final_doc, review_text, table, files, db_table,
                   db_items, result, returned, trace, odd>>

\* lines 350-355
GNamePrompt ==
    /\ pc = "name_prompt"
    /\ \E typed \in NameInputs : project_name' = TypedName(typed)
    /\ Log(Ev("input", 0, FALSE, "reply"))
    /\ pc' = SectionEntry(use_kb)
    /\ UNCHANGED <<s_vars, q_vars, ext_vars, kb_vars, evaluation_result, additional_text, matches, update_prompt, save_to_db_text, use_kb, current_section, responses, eval_i, confidence_scores,
                   validation_issues, requirements_doc, final_doc, review_text, table,
                   files, db_table, db_items, result, returned, odd>>

\* lines 421-425: query_knowledge_base returns a text whatever the retrieval
\* does, its except clauses (lines 250-259) turning a failure into a text
GSectionKB ==
    /\ pc = "section_kb"
    /\ \E kind \in {"response", "ClientError", "Exception"} :
          /\ Budget(kind = "response")
          /\ kind = "response" \/ Handled(kind)
          /\ Log(Ev("kb", current_section, FALSE, IF kind = "response" THEN "ok" ELSE "caught"))
    /\ pc' = "section_ask"
    /\ UNCHANGED <<s_vars, q_vars, ext_vars, kb_vars, evaluation_result, additional_text, matches, update_prompt, save_to_db_text, project_name, use_kb, current_section, responses, eval_i,
                   confidence_scores, validation_issues, requirements_doc, final_doc,
                   review_text, table, files, db_table, db_items, result, returned>>

\* lines 427-438
GSectionAsk ==
    /\ pc = "section_ask"
    /\ Log(Ev("agent", current_section, FALSE, "ok"))
    /\ pc' = "section_handoff"
    /\ UNCHANGED <<s_vars, q_vars, ext_vars, kb_vars, evaluation_result, additional_text, matches, update_prompt, save_to_db_text, project_name, use_kb, current_section, responses, eval_i,
                   confidence_scores, validation_issues, requirements_doc, final_doc,
                   review_text, table, files, db_table, db_items, result, returned, odd>>

\* lines 440-457, and 417-418 of the next round
GSectionHandoff ==
    /\ pc = "section_handoff"
    /\ \E t \in SectionReplies(current_section + 1) :
          /\ Budget(t = DefaultReply(current_section + 1))
          /\ responses' = DictSet(responses, SECTIONS[current_section + 1], StripMarker(t))
          /\ returned' = Append(returned, t)
    /\ Log(Ev("handoff", current_section, Breakout(pc), "reply"))
    /\ IF current_section + 1 < Len(SECTIONS)
       THEN current_section' = current_section + 1 /\ pc' = SectionEntry(use_kb)
       ELSE current_section' = current_section /\ pc' = "additional_ask"
    /\ UNCHANGED <<s_vars, q_vars, ext_vars, kb_vars, evaluation_result, additional_text, matches, update_prompt, save_to_db_text, project_name, use_kb, eval_i, confidence_scores, validation_issues,
                   requirements_doc, final_doc, review_text, table, files, db_table,
                   db_items, result>>

\* lines 459-462
GAdditionalAsk ==
    /\ pc = "additional_ask"
    /\ Log(Ev("agent", current_section, FALSE, "ok"))
    /\ pc' = "additional_handoff"
    /\ UNCHANGED <<s_vars, q_vars, ext_vars, kb_vars, evaluation_result, additional_text, matches, update_prompt, save_to_db_text, project_name, use_kb, current_section, responses, eval_i,
                   confidence_scores, validation_issues, requirements_doc, final_doc,
                   review_text, table, files, db_table, db_items, result, returned, odd>>

\* lines 464-476, and 503-504 when nothing is added
GAdditionalHandoff ==
    /\ pc = "additional_handoff"
    /\ \E t \in AdditionalReplies :
          /\ Budget(t = DefaultAdditional)
          /\ additional_text' = StripMarker(t)
          /\ pc' = IF NothingToAdd(StripMarker(t)) THEN "evaluate" ELSE "categorize"
    /\ Log(Ev("handoff", current_section, Breakout(pc), "reply"))
    /\ eval_i' = 1
    /\ UNCHANGED <<s_vars, q_vars, ext_vars, kb_vars, evaluation_result, matches, update_prompt, save_to_db_text, project_name, use_kb, current_section, responses, confidence_scores,
                   validation_issues, requirements_doc, final_doc, review_text, table,
                   files, db_table, db_items, result, returned>>

\* lines 478-504
GCategorize ==
    /\ pc = "categorize"
    /\ \E c \in ClassifierTexts :
          /\ matches' = FindAll(c)
          /\ responses' = AddInformation(responses, FindAll(c), Len(FindAll(c)))
    /\ Log(Ev("classify", current_section, FALSE, "ok"))
    /\ pc' = "evaluate"
    /\ UNCHANGED <<s_vars, q_vars, ext_vars, kb_vars, evaluation_result, additional_text, update_prompt, save_to_db_text, project_name, use_kb, current_section, eval_i, confidence_scores,
                   validation_issues, requirements_doc, final_doc, review_text, table,
                   files, db_table, db_items, result, returned, odd>>

\* the step after the body of the loop of line 506 for item eval_i
AfterItem == IF eval_i = Len(responses) THEN "generate" ELSE "evaluate"

\* lines 506-521
GEvaluate ==
    /\ pc = "evaluate"
    /\ eval_i <= Len(responses)
    /\ \E v \in {DefaultEvaluation} \cup OddEvaluations :
          /\ Budget(v = DefaultEvaluation)
          /\ evaluation_result' = v
          /\ confidence_scores' =
                DictSet(confidence_scores, responses[eval_i][1], extract_confidence_score(v))
          /\ IF LowConfidence(extract_confidence_score(v))
             THEN pc' = "validate" /\ eval_i' = eval_i
             ELSE pc' = AfterItem /\ eval_i' = eval_i + 1
    /\ Log(Ev("evaluate", eval_i - 1, FALSE, "ok"))
    /\ UNCHANGED <<s_vars, q_vars, ext_vars, kb_vars, additional_text, matches, update_prompt, save_to_db_text, project_name, use_kb, current_section, responses, validation_issues,
                   requirements_doc, final_doc, review_text, table, files, db_table,
                   db_items, result, returned>>

\* a variant of GValidate that hands the validator the section after the one
\* just evaluated
GValidateNextSection ==
    /\ pc = "validate"
    /\ LET j == IF eval_i < Len(responses) THEN eval_i + 1 ELSE eval_i IN
       /\ validation_issues' = DictSet(validation_issues, responses[j][1], ValidationText)
       /\ Log(Ev("validate", j - 1, FALSE, "ok"))
    /\ pc' = AfterItem
    /\ eval_i' = eval_i + 1
    /\ UNCHANGED <<s_vars, q_vars, ext_vars, kb_vars, evaluation_result, additional_text, matches, update_prompt, save_to_db_text, project_name, use_kb, current_section, responses, confidence_scores,
                   requirements_doc, final_doc, review_text, table, files, db_table,
                   db_items, result, returned, odd>>

\* lines 522-531
GValidate ==
    /\ pc = "validate"
    /\ validation_issues' = DictSet(validation_issues, responses[eval_i][1], ValidationText)
    /\ Log(Ev("validate", eval_i - 1, FALSE, "ok"))
    /\ pc' = AfterItem
    /\ eval_i' = eval_i + 1
    /\ UNCHANGED <<s_vars, q_vars, ext_vars, kb_vars, evaluation_result, additional_text, matches, update_prompt, save_to_db_text, project_name, use_kb, current_section, responses, confidence_scores,
                   requirements_doc, final_doc, review_text, table, files, db_table,
                   db_items, result, returned, odd>>

\* line 556: rich renders a Panel around a str; for any other object
\* console.print raises NotRenderableError
Renderable(v) == v.kind = "str"

\* a variant of GGenerate that treats the generator's error text as a failure
GGenerateDetects ==
    /\ pc = "generate"
    /\ \E d \in GeneratedDocs :
          /\ requirements_doc' = d
          /\ IF Renderable(d) /\ d.text # ErrorDoc
             THEN /\ Log(Ev("generate", current_section, FALSE, "ok"))
                  /\ pc' = "review_handoff"
                  /\ result' = result
             ELSE /\ Log(Ev("generate", current_section, FALSE, "Exception"))
                  /\ pc' = LeftAt("Exception")
                  /\ result' = Outcome("Exception")
    /\ UNCHANGED <<s_vars, q_vars, ext_vars, kb_vars, evaluation_result, additional_text, matches, update_prompt, save_to_db_text, project_name, use_kb, current_section, responses, eval_i,
                   confidence_scores, validation_issues, final_doc, review_text, table,
                   files, db_table, db_items, returned, odd>>

\* lines 533-556, and 678-682 when the draft cannot be displayed
GGenerate ==
    /\ pc = "generate"
    /\ \E d \in GeneratedDocs :
          /\ requirements_doc' = d
          /\ IF Renderable(d)
             THEN /\ Log(Ev("generate", current_section, FALSE, "ok"))
                  /\ pc' = "review_handoff"
                  /\ result' = result
             ELSE /\ Log(Ev("generate", current_section, FALSE, "Exception"))
                  /\ pc' = LeftAt("Exception")
                  /\ result' = Outcome("Exception")
    /\ UNCHANGED <<s_vars, q_vars, ext_vars, kb_vars, evaluation_result, additional_text, matches, update_prompt, save_to_db_text, project_name, use_kb, current_section, responses, eval_i,
                   confidence_scores, validation_issues, final_doc, review_text, table,
                   files, db_table, db_items, returned, odd>>

\* lines 573-581: the prompt of the revision call
UpdatePrompt(doc, feedback) ==
    <<"Original document:\n\n">> \o Str(doc) \o <<"\n\nUser feedback:\n">> \o feedback
        \o <<"\n\nPlease update the document based on this feedback.">>

\* a variant of GReviewHandoff that asks for a revision after every reply
GReviewHandoffAlways ==
    /\ pc = "review_handoff"
    /\ \E t \in ReviewReplies :
          /\ review_text' = StripMarker(t)
          /\ pc' = "revise"
          /\ update_prompt' = UpdatePrompt(requirements_doc, StripMarker(t))
    /\ final_doc' = requirements_doc
    /\ Log(Ev("handoff", current_section, Breakout(pc), "reply"))
    /\ UNCHANGED <<s_vars, q_vars, ext_vars, kb_vars, evaluation_result, additional_text, matches, save_to_db_text, project_name, use_kb, current_section, responses, eval_i,
                   confidence_scores, validation_issues, requirements_doc, table, files,
                   db_table, db_items, result, returned, odd>>

\* lines 558-581
GReviewHandoff ==
    /\ pc = "review_handoff"
    /\ \E t \in ReviewReplies :
          /\ review_text' = StripMarker(t)
          /\ IF NoChanges(StripMarker(t))
             THEN pc' = "write_file" /\ update_prompt' = update_prompt
             ELSE /\ pc' = "revise"
                  /\ update_prompt' = UpdatePrompt(requirements_doc, StripMarker(t))
    /\ final_doc' = requirements_doc
    /\ Log(Ev("handoff", current_section, Breakout(pc), "reply"))
    /\ UNCHANGED <<s_vars, q_vars, ext_vars, kb_vars, evaluation_result, additional_text, matches, save_to_db_text, project_name, use_kb, current_section, responses, eval_i,
                   confidence_scores, validation_issues, requirements_doc, table, files,
                   db_table, db_items, result, returned, odd>>

\* lines 583-587
GRevise ==
    /\ pc = "revise"
    /\ final_doc' = AgentResult(RevisedDoc)
    /\ Log(Ev("revise", current_section, FALSE, "ok"))
    /\ pc' = "write_file"
    /\ UNCHANGED <<s_vars, q_vars, ext_vars, kb_vars, evaluation_result, additional_text, matches, update_prompt, save_to_db_text, review_text, project_name, use_kb, current_section, responses, eval_i,
                   confidence_scores, validation_issues, requirements_doc, table, files,
                   db_table, db_items, result, returned, odd>>

\* lines 589-597
GWriteFile ==
    /\ pc = "write_file"
    /\ files' = Append(files, Str(final_doc))
    /\ Log(Ev("write", current_section, FALSE, "ok"))
    /\ pc' = "db_handoff"
    /\ UNCHANGED <<s_vars, q_vars, ext_vars, kb_vars, evaluation_result, additional_text, matches, update_prompt, save_to_db_text, project_name, use_kb, current_section, responses, eval_i,
                   confidence_scores, validation_issues, requirements_doc, final_doc,
                   review_text, table, db_table, db_items, result, returned, odd>>

\* lines 594-595 and 678-682: the file is opened and the write fails
GWriteFails ==
    /\ pc = "write_file"
    /\ files' = Append(files, <<>>)
    /\ Log(Ev("write", current_section, FALSE, "Exception"))
    /\ pc' = LeftAt("Exception")
    /\ result' = Outcome("Exception")
    /\ UNCHANGED <<s_vars, q_vars, ext_vars, kb_vars, evaluation_result, additional_text, matches, update_prompt, save_to_db_text, project_name, use_kb, current_section, responses, eval_i,
                   confidence_scores, validation_issues, requirements_doc, final_doc,
                   review_text, table, db_table, db_items, returned, odd>>

\* lines 601-611, and 653-671 when the reply is not affirmative
GPersistHandoff ==
    /\ pc = "db_handoff"
    /\ \E t \in PersistReplies :
          /\ save_to_db_text' = StripMarker(t)
          /\ IF Affirmative(StripMarker(t))
             THEN pc' = "db_table" /\ result' = result
             ELSE pc' = "done" /\ result' = Success(responses)
    /\ Log(Ev("handoff", current_section, Breakout(pc), "reply"))
    /\ UNCHANGED <<s_vars, q_vars, ext_vars, kb_vars, evaluation_result, additional_text, matches, update_prompt, project_name, use_kb, current_section, responses, eval_i,
                   confidence_scores, validation_issues, requirements_doc, final_doc,
                   review_text, table, files, db_table, db_items, returned, odd>>

\* lines 614-623: table_status raises when the table does not exist, and may
\* raise when it does; the bare except takes either for a missing table
GTableCheck ==
    /\ pc = "db_table"
    /\ \E st \in {"exists", "absent"}, chk \in {"ok", "raises"} :
          /\ st = "absent" => chk = "raises"
          /\ db_table' = st
          /\ pc' = IF chk = "ok" THEN "db_put" ELSE "db_create"
          /\ Log(Ev("table_status", current_section, FALSE, chk))
    /\ table' = "bound"
    /\ UNCHANGED <<s_vars, q_vars, ext_vars, kb_vars, evaluation_result, additional_text, matches, update_prompt, save_to_db_text, project_name, use_kb, current_section, responses, eval_i,
                   confidence_scores, validation_issues, requirements_doc, final_doc,
                   review_text, files, db_items, result, returned, odd>>

\* lines 623-637: create_table succeeds only for a table that does not exist
GCreateTable ==
    /\ pc = "db_create"
    /\ db_table = "absent"
    /\ db_table' = "exists"
    /\ Log(Ev("create_table", current_section, FALSE, "ok"))
    /\ pc' = "db_put"
    /\ UNCHANGED <<s_vars, q_vars, ext_vars, kb_vars, evaluation_result, additional_text, matches, update_prompt, save_to_db_text, project_name, use_kb, current_section, responses, eval_i,
                   confidence_scores, validation_issues, requirements_doc, final_doc,
                   review_text, table, files, db_items, result, returned, odd>>

\* lines 639-652 and 660-671
GPutItem ==
    /\ pc = "db_put"
    /\ db_items' = Append(db_items, Item(project_name, final_doc, confidence_scores, responses))
    /\ Log(Ev("put_item", current_section, FALSE, "ok"))
    /\ pc' = "done"
    /\ result' = Success(responses)
    /\ UNCHANGED <<s_vars, q_vars, ext_vars, kb_vars, evaluation_result, additional_text, matches, update_prompt, save_to_db_text, project_name, use_kb, current_section, responses, eval_i,
                   confidence_scores, validation_issues, requirements_doc, final_doc,
                   review_text, table, files, db_table, returned, odd>>

\* a variant of GRaises in which a failed external call is made again
GRaisesRetry ==
    /\ pc \in HandoffPcs \cup ExternalPcs \cup {"name_prompt"}
    /\ \E exc \in Raisable(pc) :
          /\ Log(Ev(pc, IF pc \in {"evaluate", "validate"} THEN eval_i - 1 ELSE current_section,
                    Breakout(pc), exc))
          /\ IF pc \in ExternalPcs
             THEN pc' = pc /\ result' = result
             ELSE IF pc \in InnerPcs /\ InnerCatches(exc)
             THEN pc' = "done" /\ result' = Success(responses)
             ELSE pc' = LeftAt(exc) /\ result' = Outcome(exc)
    /\ UNCHANGED <<s_vars, q_vars, ext_vars, kb_vars, evaluation_result, additional_text, matches, update_prompt, save_to_db_text, project_name, use_kb, current_section, responses, eval_i,
                   confidence_scores, validation_issues, requirements_doc, final_doc,
                   review_text, table, files, db_table, db_items, returned, odd>>

\* the call made at this step raises: lines 656-671 inside the DynamoDB part,
\* lines 673-682 otherwise; an exception neither names leaves the function
GRaises ==
    /\ pc \in HandoffPcs \cup ExternalPcs \cup {"name_prompt"}
    /\ \E exc \in Raisable(pc) :
          /\ Log(Ev(pc, IF pc \in {"evaluate", "validate"} THEN eval_i - 1 ELSE current_section,
                    Breakout(pc), exc))
          /\ IF pc \in InnerPcs /\ InnerCatches(exc)
             THEN pc' = "done" /\ result' = Success(responses)
             ELSE pc' = LeftAt(exc) /\ result' = Outcome(exc)
    /\ UNCHANGED <<s_vars, q_vars, ext_vars, kb_vars, evaluation_result, additional_text, matches, update_prompt, save_to_db_text, project_name, use_kb, current_section, responses, eval_i,
                   confidence_scores, validation_issues, requirements_doc, final_doc,
                   review_text, table, files, db_table, db_items, returned, odd>>

\* lines 60-72
QKnowledgeBase ==
    /\ q_pc = "q_kb"
    /\ q_calls' = IF HasTool(q_tools, "query_knowledge_base")
                  THEN Append(q_calls, Call("query_knowledge_base", FALSE))
                  ELSE q_calls
    /\ q_pc' = "q_clarify"
    /\ UNCHANGED <<q_tools, q_handoffs, q_printed, q_ret, q_raised>>
    /\ UNCHANGED <<ext_vars, kb_vars, g_vars, s_vars>>

\* lines 74-85
QClarify ==
    /\ q_pc = "q_clarify"
    /\ IF HasTool(q_tools, "handoff_to_user")
       THEN \E inp \in UserInputs :
               /\ q_calls' = Append(q_calls, Call("handoff_to_user", FALSE))
               /\ q_handoffs' = Append(q_handoffs, Handoff(FALSE, inp, handoff_to_user(inp, FALSE)))
               /\ IF handoff_to_user(inp, FALSE).kind = "return"
                  THEN /\ q_printed' = Append(q_printed, "clarification")
                       /\ q_pc' = "q_final"
                       /\ q_raised' = q_raised
                  ELSE /\ q_printed' = q_printed
                       /\ q_pc' = "q_raised"
                       /\ q_raised' = handoff_to_user(inp, FALSE).value
       ELSE /\ q_pc' = "q_final"
            /\ UNCHANGED <<q_calls, q_handoffs, q_printed, q_raised>>
    /\ UNCHANGED <<q_tools, q_ret>>
    /\ UNCHANGED <<ext_vars, kb_vars, g_vars, s_vars>>

\* lines 87-106
QFinal ==
    /\ q_pc = "q_final"
    /\ IF HasTool(q_tools, "handoff_to_user")
       THEN \E inp \in UserInputs :
               /\ q_calls' = Append(q_calls, Call("handoff_to_user", TRUE))
               /\ q_handoffs' = Append(q_handoffs, Handoff(TRUE, inp, handoff_to_user(inp, TRUE)))
               /\ IF handoff_to_user(inp, TRUE).kind = "return"
                  THEN /\ q_printed' = Append(q_printed, "final_input")
                       /\ q_pc' = "q_return"
                       /\ q_raised' = q_raised
                  ELSE IF handoff_to_user(inp, TRUE).value = <<"SystemExit">>
                  THEN /\ q_printed' = q_printed
                       /\ q_pc' = "q_return"
                       /\ q_raised' = q_raised
                  ELSE /\ q_printed' = q_printed
                       /\ q_pc' = "q_raised"
                       /\ q_raised' = handoff_to_user(inp, TRUE).value
       ELSE /\ q_pc' = "q_return"
            /\ UNCHANGED <<q_calls, q_handoffs, q_printed, q_raised>>
    /\ UNCHANGED <<q_tools, q_ret>>
    /\ UNCHANGED <<ext_vars, kb_vars, g_vars, s_vars>>

\* line 108
QReturn ==
    /\ q_pc = "q_return"
    /\ q_ret' = Thanks
    /\ q_pc' = "q_returned"
    /\ UNCHANGED <<q_tools, q_calls, q_handoffs, q_printed, q_raised>>
    /\ UNCHANGED <<ext_vars, kb_vars, g_vars, s_vars>>

(***************************************************************************)
(* Specification Spec: one run of either program.                          *)
(***************************************************************************)
\* either program of the repository is started: gather_requirements of
\* requirements_demo.py, or Agent.query of kb_chatbot_example.py
Init ==
    /\ ExtractIdle
    /\ KBIdle
    /\ SharedIdle
    /\ \/ /\ InitGather
          /\ QueryIdle
       \/ /\ GatherIdle
          /\ q_pc = "q_kb"
          /\ q_tools \in ToolLists
          /\ q_calls = <<>>
          /\ q_handoffs = <<>>
          /\ q_printed = <<>>
          /\ q_ret = <<>>
          /\ q_raised = <<>>

Next ==
    \/ GStart
    \/ GNamePrompt
    \/ GSectionKB
    \/ GSectionAsk
    \/ GSectionHandoff
    \/ GAdditionalAsk
    \/ GAdditionalHandoff
    \/ GCategorize
    \/ GEvaluate
    \/ GValidate
    \/ GGenerate
    \/ GReviewHandoff
    \/ GRevise
    \/ GWriteFile
    \/ GWriteFails
    \/ GPersistHandoff
    \/ GTableCheck
    \/ GCreateTable
    \/ GPutItem
    \/ GRaises
    \/ QKnowledgeBase
    \/ QClarify
    \/ QFinal
    \/ QReturn

Spec == Init /\ [][Next]_vars

(***************************************************************************)
(* Specification SpecShared: two interleaved runs up to the start of       *)
(* evaluation.                                                             *)
(***************************************************************************)
\* what a run does not share with the other: not modelled here
g_rest == <<pc, project_name, use_kb, eval_i, confidence_scores, validation_issues,
            requirements_doc, final_doc, evaluation_result, additional_text, matches, review_text,
            update_prompt,
            save_to_db_text, table,
            files, db_table, db_items, result, returned, trace, odd>>

InitShared ==
    /\ ExtractIdle
    /\ KBIdle
    /\ QueryIdle
    /\ GatherIdle
    /\ s_pc = [r \in Runs |-> "start"]
    /\ s_i = [r \in Runs |-> 0]
    /\ s_seen = [r \in Runs |-> <<>>]
    /\ s_hit = [r \in Runs |-> FALSE]

\* a variant of SStart in which a run does not touch the shared globals
SStartNoReset(r) ==
    /\ s_pc[r] = "start"
    /\ UNCHANGED <<current_section, responses>>
    /\ s_pc' = [s_pc EXCEPT ![r] = "section_handoff"]
    /\ s_hit' = [s_hit EXCEPT ![Other(r)] =
                    @ \/ (s_pc[Other(r)] = "section_handoff" /\ s_i[Other(r)] >= 1)
                      \/ s_pc[Other(r)] = "additional_handoff"]
    /\ UNCHANGED <<s_i, s_seen, g_rest, ext_vars, kb_vars, q_vars>>

\* lines 318-322 and 417-445 for the first section; s_hit[o] records that
\* this reset came after the other run o stored an answer and before o
\* began evaluation
SStart(r) ==
    /\ s_pc[r] = "start"
    /\ current_section' = 0
    /\ responses' = <<>>
    /\ s_pc' = [s_pc EXCEPT ![r] = "section_handoff"]
    /\ s_hit' = [s_hit EXCEPT ![Other(r)] =
                    @ \/ (s_pc[Other(r)] = "section_handoff" /\ s_i[Other(r)] >= 1)
                      \/ s_pc[Other(r)] = "additional_handoff"]
    /\ UNCHANGED <<s_i, s_seen, g_rest, ext_vars, kb_vars, q_vars>>

\* lines 447-457, then 417-445 for the next section or 459-468 after the last
SSectionHandoff(r) ==
    /\ s_pc[r] = "section_handoff"
    /\ responses' = DictSet(responses, SECTIONS[s_i[r] + 1], RunAnswer(r, s_i[r] + 1))
    /\ IF s_i[r] + 1 < Len(SECTIONS)
       THEN /\ s_i' = [s_i EXCEPT ![r] = @ + 1]
            /\ current_section' = s_i[r] + 1
            /\ s_pc' = s_pc
       ELSE /\ s_i' = s_i
            /\ current_section' = current_section
            /\ s_pc' = [s_pc EXCEPT ![r] = "additional_handoff"]
    /\ UNCHANGED <<s_seen, s_hit, g_rest, ext_vars, kb_vars, q_vars>>

\* lines 470-476 with nothing to add, and 503-506: the loop over
\* responses.items() starts on the map as it is now
SBeginEvaluation(r) ==
    /\ s_pc[r] = "additional_handoff"
    /\ s_seen' = [s_seen EXCEPT ![r] = responses]
    /\ s_pc' = [s_pc EXCEPT ![r] = "evaluate"]
    /\ UNCHANGED <<current_section, responses, s_i, s_hit, g_rest, ext_vars, kb_vars, q_vars>>

NextShared ==
    \/ \E r \in Runs : SStart(r)
    \/ \E r \in Runs : SSectionHandoff(r)
    \/ \E r \in Runs : SBeginEvaluation(r)

SpecShared == InitShared /\ [][NextShared]_vars

(***************************************************************************)
(* Claims.                                                                 *)
(***************************************************************************)

\* the text a checkpoint returned with only a leading marker removed
LeadingMarkerRemoved(text) ==
    IF StartsAt(text, 1, Marker) THEN SubSeq(text, Len(Marker) + 1, Len(text)) ELSE text

\* C1: in every run that ended with status=success the Answer map has
\* exactly the five section keys, and the value stored for each section is
\* the text its checkpoint returned with only a leading
\* 'User response received: ' removed.
C1_AnswersAreReturnedTexts ==
    (pc = "done" /\ result.status = "success") =>
        /\ DictKeys(responses) = SECTIONS
        /\ Len(returned) = Len(SECTIONS)
        /\ \A i \in 1..Len(SECTIONS) : responses[i][2] = LeadingMarkerRemoved(returned[i])

Validated(k) == \E n \in 1..Len(trace) : trace[n].op = "validate" /\ trace[n].sec = k - 1

\* C2: for every section whose score was extracted, the validator is
\* invoked for it if and only if the score is strictly below 7.0, and once
\* the section is dealt with a ValidationIssues entry exists for it if and
\* only if the score is strictly below 7.0; a score of exactly 7.0 has
\* neither.
C2_ValidationIffBelowThreshold ==
    \A k \in 1..Len(responses) :
        DictHas(confidence_scores, responses[k][1]) =>
            LET score == DictGet(confidence_scores, responses[k][1])
                low == ScoreLT(score, Dec(7))
                entry == DictHas(validation_issues, responses[k][1])
            IN  /\ ~(pc = "validate" /\ eval_i = k) => (Validated(k) <=> low)
                /\ eval_i > k => (entry <=> low)
                /\ entry => low
                /\ score = Dec(7) => ~Validated(k) /\ ~entry

\* evaluation is over, one section scored 6.9 and was validated, the others
\* scored 8.0 and were not
C2_Witness ==
    /\ pc = "generate"
    /\ \E k \in 1..Len(responses) :
          /\ DictGet(confidence_scores, responses[k][1]) = [num |-> 69, den |-> 10]
          /\ Validated(k)
          /\ DictGet(validation_issues, responses[k][1]) = ValidationText
          /\ \A j \in (1..Len(responses)) \ {k} :
                /\ DictGet(confidence_scores, responses[j][1]) = Dec(8)
                /\ ~Validated(j)
                /\ ~DictHas(validation_issues, responses[j][1])

\* the break-mode handoff calls Agent.query made
BreakCalls == {n \in 1..Len(q_calls) : q_calls[n].tool = "handoff_to_user" /\ q_calls[n].breakout_of_loop}

BreakReturns == {n \in 1..Len(trace) : trace[n].op = "handoff" /\ trace[n].brk}

PlainRun ==
    /\ requirements_doc.kind = "str"
    /\ \A n \in 1..Len(trace) :
          /\ trace[n].op \notin {"classify", "revise"}
          /\ trace[n].out \notin {"KeyboardInterrupt", "SystemExit"}
          /\ trace[n].out = "Exception" => trace[n].op \in InnerPcs

HandoffReplies == {n \in 1..Len(trace) : trace[n].op = "handoff"}

\* C6 (amended): a run fed five section answers, a 'nothing to add' reply
\* and a 'no changes' review reply, whose generator returned the text D and
\* in which nothing failed before the DynamoDB part, ends with
\* status=success, one output file holding exactly D and total_responses 5.
C6_PlainRunSucceeds ==
    (pc \in {"done", "exited"} /\ PlainRun) =>
        /\ result.status = "success"
        /\ files = <<requirements_doc.text>>
        /\ result.total_responses = 5
        /\ Cardinality(HandoffReplies) >= 7

\* such a run with the persistence question answered 'no'
C6_Witness ==
    /\ pc = "done"
    /\ PlainRun
    /\ Cardinality(HandoffReplies) = 8
    /\ files = <<ReqDoc>>
    /\ db_items = <<>>
    /\ result = Success(responses)

\* C6 as stated: six replies are enough, a run that got exactly six ends in
\* success with the file holding D.
C6_SixRepliesSucceed ==
    (pc \in {"done", "exited"} /\ requirements_doc.kind = "str"
        /\ Cardinality(HandoffReplies) = 6
        /\ \A n \in 1..Len(trace) : trace[n].op \notin {"classify", "revise"}) =>
        /\ result.status = "success"
        /\ files = <<requirements_doc.text>>
        /\ result.total_responses = 5

\* C7: every invocation that has ended has produced a RunResult whose
\* status is success, interrupted or error.
C7_AlwaysARunResult ==
    pc \in {"done", "exited"} => result.status \in {"success", "interrupted", "error"}

Interrupts == {n \in 1..Len(trace) : trace[n].out = "KeyboardInterrupt"}

\* C8: an interrupt at the project-name prompt or at a checkpoint ends the
\* run with status=interrupted and nothing put into the table.
C8_InterruptedNeverPersists ==
    Interrupts # {} =>
        /\ \A n \in Interrupts :
              n = Len(trace) /\ trace[n].op \in HandoffPcs \cup {"name_prompt"}
        /\ pc = "done"
        /\ result.status = "interrupted"
        /\ db_items = <<>>

\* the interrupt arrived at the persistence prompt, after the file was written
C8_Witness ==
    /\ Interrupts # {}
    /\ trace[Len(trace)].op = "db_handoff"
    /\ result.status = "interrupted"
    /\ files # <<>>

\* C11: while the run is blocked at the checkpoint of section i the Answer
\* map holds exactly the entries of sections 0..i-1, in that order, and
\* whenever evaluation begins or is under way it holds exactly one entry
\* for each of the five sections.
C11_AnswerMapProgress ==
    /\ pc = "section_handoff" => DictKeys(responses) = SubSeq(SECTIONS, 1, current_section)
    /\ pc \in {"evaluate", "validate"} => DictKeys(responses) = SECTIONS

\* blocked at the checkpoint of the fourth section with three answers stored
C11_Witness ==
    /\ pc = "section_handoff"
    /\ current_section = 3
    /\ Len(responses) = 3
    /\ returned = [i \in 1..3 |-> DefaultReply(i)]

Wrote == \E n \in 1..Len(trace) : trace[n].op = "write" /\ trace[n].out = "ok"
Revised == \E n \in 1..Len(trace) : trace[n].op = "revise" /\ trace[n].out = "ok"

\* C12: in every run that wrote the output file, the file holds exactly the
\* text the document generator returned when the review asked for no
\* changes, and exactly the text the revision call returned otherwise.
C12_FileHoldsFinalText ==
    Wrote =>
        /\ Len(files) = 1
        /\ files[1] = IF Revised THEN RevisedDoc ELSE requirements_doc.text
        /\ files[1] = final_doc.text

\* the file was written after a revision
C12_Witness ==
    /\ Wrote
    /\ Revised
    /\ files = <<RevisedDoc>>
    /\ requirements_doc = StrVal(ReqDoc)

\* the handoff_to_user calls in which the user typed a line
Typed == {n \in 1..Len(q_handoffs) : q_handoffs[n].typed.kind = "text"}

\* C13: in both modes the checkpoint gives its immediate caller the literal
\* text the user typed; the typed input is never lost.
C13_TypedTextDelivered ==
    \A n \in Typed :
        q_handoffs[n].outcome = [kind |-> "return", value |-> q_handoffs[n].typed.text]

\* C14: handoff_to_user called with breakout_of_loop=False returns the
\* line the user typed; called with breakout_of_loop=True it raises
\* SystemExit and returns nothing.
C14_ReturnsOrExits ==
    \A n \in Typed :
        IF q_handoffs[n].breakout_of_loop
        THEN q_handoffs[n].outcome = [kind |-> "raise", value |-> <<"SystemExit">>]
        ELSE q_handoffs[n].outcome = [kind |-> "return", value |-> q_handoffs[n].typed.text]

\* a continue-mode call returned the typed line and a break-mode call raised
C14_Witness ==
    /\ Len(q_handoffs) = 2
    /\ Typed = {1, 2}
    /\ q_handoffs[1].typed.text = <<"more details">>
    /\ ~q_handoffs[1].breakout_of_loop
    /\ q_handoffs[2].breakout_of_loop
    /\ q_handoffs[2].outcome.kind = "raise"

\* where the blocks of the returned text start, and the k-th such place
SourceStarts(text) == {p \in 1..Len(text) : text[p] = "Source "}
SourceStart(text, k) ==
    CHOOSE p \in SourceStarts(text) : Cardinality({q \in SourceStarts(text) : q < p}) = k - 1
\* where block k of n ends: before the joining newline, or with the text
BlockEnd(text, k, n) == IF k < n THEN SourceStart(text, k + 1) - 2 ELSE Len(text)

\* C15: when the retrieval call returned n >= 1 results, the function has
\* called the API exactly once, raised nothing, and returned n blocks that
\* start with 'Source 1' .. 'Source n' in the order of the results, block k
\* ending with the content text of result k (or 'No content' when result k
\* has none) and a newline.
C15_OneBlockPerResult ==
    (kb_pc = "done" /\ kb_env.kind = "response" /\ kb_env.results # <<>>) =>
        LET n == Len(kb_env.results) IN
        /\ kb_api_calls = 1
        /\ kb_raised = "none"
        /\ Cardinality(SourceStarts(kb_ret)) = n
        /\ \A k \in 1..n :
              /\ kb_ret[SourceStart(kb_ret, k) + 1] = IntText(k)
              /\ kb_ret[BlockEnd(kb_ret, k, n)] = "\n"
              /\ kb_ret[BlockEnd(kb_ret, k, n) - 1] =
                    (IF kb_env.results[k].content = "missing"
                     THEN "No content" ELSE kb_env.results[k].content)

\* three results came back, 'beta' before 'alpha'
C15_Witness ==
    /\ kb_pc = "done"
    /\ kb_env.kind = "response"
    /\ Len(kb_env.results) = 3
    /\ kb_env.results[1].content = "beta"
    /\ kb_env.results[2].content = "alpha"
    /\ kb_api_calls = 1
    /\ Cardinality(SourceStarts(kb_ret)) = 3

\* the map run r began evaluation with misses one of r's answers, or holds
\* an answer typed in the other run
Missing(r) == \E i \in 1..Len(SECTIONS) : ~DictHas(s_seen[r], SECTIONS[i])
Foreign(r) ==
    \E i \in 1..Len(SECTIONS) :
        DictHas(s_seen[r], SECTIONS[i]) /\ DictGet(s_seen[r], SECTIONS[i]) = RunAnswer(Other(r), i)

\* C16: when the other run resets the shared globals after run r has
\* stored an answer and before r begins evaluation, r begins evaluation
\* with a map that misses one of its own answers or holds an answer typed
\* in the other run.
C16_InterleavedRunsCorrupt ==
    \A r \in Runs : (s_pc # <<>> /\ s_pc[r] = "evaluate" /\ s_hit[r]) => (Missing(r) \/ Foreign(r))

\* run 1 has begun evaluation on a map in which its first answer is
\* replaced by the one typed in run 2, next to its own later answers
C16_Witness ==
    /\ s_pc # <<>>
    /\ s_pc[1] = "evaluate"
    /\ s_hit[1]
    /\ Len(s_seen[1]) = Len(SECTIONS)
    /\ DictGet(s_seen[1], SECTIONS[1]) = RunAnswer(2, 1)
    /\ \A i \in 2..Len(SECTIONS) : DictGet(s_seen[1], SECTIONS[i]) = RunAnswer(1, i)

\* the place of a step in the order of the run
StepRank(at, section, item) ==
    CASE at = "start"              -> 0
      [] at = "name_prompt"        -> 1
      [] at = "section_kb"         -> 10 + 3 * section
      [] at = "section_ask"        -> 11 + 3 * section
      [] at = "section_handoff"    -> 12 + 3 * section
      [] at = "additional_ask"     -> 30
      [] at = "additional_handoff" -> 31
      [] at = "categorize"         -> 32
      [] at = "evaluate"           -> 40 + 2 * item
      [] at = "validate"           -> 41 + 2 * item
      [] at = "generate"           -> 60
      [] at = "review_handoff"     -> 61
      [] at = "revise"             -> 62
      [] at = "write_file"         -> 63
      [] at = "db_handoff"         -> 64
      [] at = "db_table"           -> 65
      [] at = "db_create"          -> 66
      [] at = "db_put"             -> 67
      [] OTHER                     -> 100

Rank == StepRank(pc, current_section, eval_i)

\* the external calls the run has attempted, by kind and section
ExternalOps == {"kb", "evaluate", "validate", "generate", "write", "create_table", "put_item"}
Attempts(op, sec) == {n \in 1..Len(trace) : trace[n].op = op /\ trace[n].sec = sec}

\* the checkpoints that have returned so far, in the order they returned
RepliesUpTo(n) == {k \in 1..n : trace[k].op = "handoff"}

OncePerCall ==
    /\ \A op \in ExternalOps, sec \in 0..(Len(SECTIONS) - 1) : Cardinality(Attempts(op, sec)) <= 1
    /\ \A op \in {"generate", "write", "create_table", "put_item"} :
          Cardinality({n \in 1..Len(trace) : trace[n].op = op}) <= 1
    /\ \A n \in 1..Len(trace) :
          trace[n].op = "handoff" =>
              LET k == Cardinality(RepliesUpTo(n)) IN
              /\ k <= Len(SECTIONS) + 3
              /\ k <= Len(SECTIONS) => (trace[n].sec = k - 1 /\ ~trace[n].brk)
              /\ k > Len(SECTIONS) => trace[n].brk

\* C17: every step of a run moves it to a later place in the fixed order
\* (sections 0..4, additional information, evaluation section by section,
\* generation, review, file write, persistence prompt, upsert), so no step
\* is repeated or overlaps another, and each external call is attempted at
\* most once.
C17_FixedOrderNoRetry ==
    [][pc # "idle" =>
          /\ Rank' > Rank
          /\ Len(trace') > Len(trace) =>
                LET new == trace'[Len(trace')] IN
                new.op \in ExternalOps => Attempts(new.op, new.sec) = {}]_vars

\* a run that went through every step down to the upsert
C17_Witness ==
    /\ pc = "done"
    /\ db_items # <<>>
    /\ OncePerCall
    /\ Cardinality(RepliesUpTo(Len(trace))) = Len(SECTIONS) + 3
    /\ \E n \in 1..Len(trace) : trace[n].op = "validate"
    /\ \E n \in 1..Len(trace) : trace[n].op = "kb"
    /\ \E n \in 1..Len(trace) : trace[n].op = "create_table"

\* the run is at, or has got beyond, the persistence checkpoint
AtOrPastPersistence ==
    \/ pc \in InnerPcs
    \/ save_to_db_text # NoValue
    \/ \E n \in 1..Len(trace) : trace[n].op = "db_handoff"

SaidYes == Lower(save_to_db_text) \in {<<"yes">>, <<"y">>, <<"sure">>, <<"ok">>}

PersistenceSafe ==
    /\ AtOrPastPersistence => Wrote
    /\ (pc \in {"db_table", "db_create", "db_put"} \/ db_table # "unknown") => (SaidYes /\ Wrote)
    /\ Len(db_items) <= 1
    /\ db_items # <<>> => (SaidYes /\ Wrote /\ db_items[1].document = files[1])

ReviseCalls == {n \in 1..Len(trace) : trace[n].op = "revise"}
KeepsDocument ==
    Lower(review_text) \in
        {<<"no">>, <<"n">>, <<"none">>, <<>>, <<"looks", " ", "good">>, <<"approved">>}

\* C19: once the review checkpoint has returned, no revision call is made
\* and the document stays the generated one when the reply, in lower case,
\* is in {'no','n','none','','looks good','approved'}; otherwise one
\* revision call is made, with a prompt that holds the original document
\* and the feedback text, and its output becomes the document; there is
\* never a second revision call.
C19_RevisionIffFeedback ==
    /\ Cardinality(ReviseCalls) <= 1
    /\ review_text = NoValue => (ReviseCalls = {} /\ update_prompt = NoValue)
    /\ (review_text # NoValue /\ KeepsDocument) =>
          /\ ReviseCalls = {}
          /\ pc # "revise"
          /\ update_prompt = NoValue
          /\ final_doc = requirements_doc
    /\ (review_text # NoValue /\ ~KeepsDocument) =>
          /\ (pc = "revise") # (Cardinality(ReviseCalls) = 1)
          /\ Contains(update_prompt, requirements_doc.text)
          /\ Contains(update_prompt, review_text)
          /\ Revised => final_doc = AgentResult(RevisedDoc)
          /\ ~Revised => final_doc = requirements_doc

\* the reply 'Looks good' left the document as generated and the file holds it
C19_Witness ==
    /\ review_text = <<"Looks", " ", "good">>
    /\ Wrote
    /\ ReviseCalls = {}
    /\ files = <<ReqDoc>>

ClassifyCalls == {n \in 1..Len(trace) : trace[n].op \in {"classify", "categorize"}}
Classified == \E n \in 1..Len(trace) : trace[n].op = "classify"
Skips == Lower(additional_text) \in {<<"no">>, <<"n">>, <<"none">>, <<>>}
Named(sec) == matches # NoValue /\ \E m \in 1..Len(matches) : matches[m][1] = sec
AddedMark == <<"\n\nAdditional Information:\n">>

\* C20: once the additional-information checkpoint has returned, the
\* classification call is made if and only if the reply, in lower case, is
\* not in {'no','n','none',''}; without the call every Answer is the text
\* its checkpoint gave; after the call the Answers of the sections named by
\* a matched block are the old text with additions appended, and all
\* other Answers are unchanged.
C20_ClassifyIffInformation ==
    LET calls == ClassifyCalls
        done  == Classified
    IN
    /\ Cardinality(calls) <= 1
    /\ IF additional_text = NoValue \/ Skips
       THEN calls = {} /\ pc # "categorize"
       ELSE (pc = "categorize") # (calls # {})
    /\ (pc \notin {"idle", "start", "name_prompt"} /\ s_pc = <<>>) =>
          \A i \in 1..Len(responses) :
              LET base == StripMarker(returned[i]) IN
              IF done /\ Named(responses[i][1])
              THEN StartsAt(responses[i][2], 1, base \o AddedMark)
              ELSE responses[i][2] = base

\* the reply was information, the classifier named PROJECT SCOPE only, and
\* only that Answer grew
C20_Witness ==
    /\ Classified
    /\ additional_text = <<"more on scope and stories">>
    /\ Named("PROJECT SCOPE")
    /\ ~Named("USER STORIES")
    /\ responses[1][2] = <<"answer ", "1">> \o AddedMark \o <<"more scope">>
    /\ responses[2][2] = <<"answer ", "2">>

StopSignalled ==
    \E n \in 1..Len(trace) : trace[n].op = "additional_handoff" /\ trace[n].out = "SystemExit"
Evaluated == \E n \in 1..Len(trace) : trace[n].op = "evaluate"
CallFailed == \E n \in 1..Len(trace) : trace[n].out \in {"Exception", "KeyboardInterrupt"}

\* C21: a run in which the additional-information checkpoint got its reply,
\* by return or with the stop signal of its TERMINATE mode, and in which no
\* call failed and no interrupt came, has gone on to Evaluating by the time
\* it ends: the stop signal never ends gather_requirements.
C21_StopSignalNeverEndsRun ==
    (/\ pc \in {"done", "exited"}
     /\ additional_text # NoValue \/ StopSignalled
     /\ ~CallFailed) => Evaluated

EvaluationsBefore(n) == {k \in 1..(n - 1) : trace[k].op = "evaluate"}

\* C22 as stated: whenever the Response Validator is invoked, the
\* Confidence Evaluator has already been invoked for all five sections.
C22_EvaluateAllThenValidate ==
    \A n \in 1..Len(trace) :
        trace[n].op = "validate" => Cardinality(EvaluationsBefore(n)) = Len(SECTIONS)

\* C22 (amended): evaluation and validation go section by section; the
\* validator is invoked for a section directly after the evaluator has
\* returned for that same section, before the evaluator is invoked for the
\* next one, and the generator is invoked only after the evaluator has
\* returned for all five sections.
C22_ValidateRightAfterEvaluate ==
    [][Len(trace') > Len(trace) =>
          LET new == trace'[Len(trace')] IN
          /\ new.op = "validate" =>
                /\ trace # <<>>
                /\ trace[Len(trace)] = Ev("evaluate", new.sec, FALSE, "ok")
                /\ Cardinality(EvaluationsBefore(Len(trace'))) = new.sec + 1
          /\ new.op = "generate" =>
                \A i \in 1..Len(SECTIONS) :
                    \E k \in 1..Len(trace) : trace[k] = Ev("evaluate", i - 1, FALSE, "ok")]_vars

\* the validator ran for the first section and the evaluator for the
\* second section after it
C22_Witness ==
    \E n \in 1..Len(trace) :
        /\ trace[n] = Ev("validate", 0, FALSE, "ok")
        /\ \E k \in (n + 1)..Len(trace) : trace[k] = Ev("evaluate", 1, FALSE, "ok")

\* how many times lines 495-497 modified the Answer of a section
Additions(ms, sec) == Cardinality({m \in 1..Len(ms) : ms[m][1] = sec})
MarksIn(text) == Cardinality({p \in 1..Len(text) : text[p] = AddedMark[1]})
ProperPrefix(s, t) == Len(s) < Len(t) /\ SubSeq(t, 1, Len(s)) = s

\* C23 as stated: whatever the classifier output contains, no Answer is
\* modified more than once after its creation.
C23_ModifiedAtMostOnce ==
    matches # NoValue =>
        \A i \in 1..Len(responses) : Additions(matches, responses[i][1]) <= 1

\* C23 (amended): an Answer is created when its section's checkpoint
\* returns and at no other step; afterwards it is changed only by the
\* classification step, which appends to it once for every matched block
\* that names its section, and it is never removed or replaced.
C23_CreatedOnceOnlyAppended ==
    [][pc \notin {"idle", "start"} =>
          /\ Len(responses') >= Len(responses)
          /\ Len(responses') > Len(responses) =>
                /\ pc = "section_handoff"
                /\ responses' = Append(responses, responses'[Len(responses')])
                /\ responses'[Len(responses')][1] = SECTIONS[current_section + 1]
          /\ \A i \in 1..Len(responses) :
                /\ responses'[i][1] = responses[i][1]
                /\ responses'[i][2] # responses[i][2] =>
                      /\ pc = "categorize"
                      /\ ProperPrefix(responses[i][2], responses'[i][2])
                      /\ MarksIn(responses'[i][2]) - MarksIn(responses[i][2])
                            = Additions(matches', responses[i][1])]_vars

\* the classifier output named PROJECT SCOPE in two blocks and that Answer
\* got two additions
C23_Witness ==
    /\ Classified
    /\ Additions(matches, "PROJECT SCOPE") = 2
    /\ responses[1][2] = <<"answer ", "1">> \o AddedMark \o <<"more scope">>
                            \o AddedMark \o <<"more scope">>
    /\ responses[2][2] = <<"answer ", "2">>

EvaluationFinished == eval_i = Len(SECTIONS) + 1
InRange(score) == ~ScoreLT(score, Dec(0)) /\ ~ScoreLT(Dec(10), score)

\* C24: while Answers are still collected (up to the additional-information
\* step) ConfidenceScore has no entry; once evaluation has finished it has
\* exactly one entry for each of the five sections, in section order, each
\* within [0.0, 10.0] whatever the evaluator returned; and from then on no
\* step of the run changes it.
C24_ScoresCompleteBoundedFrozen ==
    [][pc # "idle" =>
          /\ (Len(responses') < Len(SECTIONS) \/ Rank' < StepRank("evaluate", 0, 1)) =>
                confidence_scores' = <<>>
          /\ EvaluationFinished' =>
                /\ DictKeys(confidence_scores') = SECTIONS
                /\ \A i \in 1..Len(confidence_scores') : InRange(confidence_scores'[i][2])
          /\ EvaluationFinished => confidence_scores' = confidence_scores]_vars

\* the run is over, the evaluator said 'confidence: 15/10' for the first
\* section, and its entry is 10.0
C24_Witness ==
    /\ pc = "done"
    /\ result.status = "success"
    /\ EvaluationFinished
    /\ confidence_scores[1] = <<"PROJECT SCOPE", Dec(10)>>
    /\ \A i \in 2..Len(SECTIONS) : confidence_scores[i] = <<SECTIONS[i], Dec(8)>>

\* what the evaluator tool returns when its backing call has failed
Fallbacks == {ToolResult(EvalFallback), ToolResult(EvalFallbackLabelled)}

\* C25: when the evaluator's backing call fails for a section, the tool
\* returns its fallback text and the failure goes no further: the section's
\* ConfidenceScore becomes exactly 7.0 whatever the text of the failure,
\* the validator is not invoked for the section, no RunResult is produced
\* and the run goes to the next section (or, after the last, to generation).
C25_EvaluatorFailureGivesSeven ==
    [][(/\ pc = "evaluate"
        /\ evaluation_result' \in Fallbacks
        /\ trace' = Append(trace, Ev("evaluate", eval_i - 1, FALSE, "ok"))) =>
          /\ confidence_scores' = DictSet(confidence_scores, SECTIONS[eval_i], Dec(7))
          /\ validation_issues' = validation_issues
          /\ pc' = (IF eval_i = Len(SECTIONS) THEN "generate" ELSE "evaluate")
          /\ eval_i' = eval_i + 1
          /\ result' = NoResult]_vars

\* the backing call failed for the first section with a message that holds
\* 'score: 3'; the entry is 7.0, nothing was validated, and the second
\* section is next
C25_Witness ==
    /\ pc = "evaluate"
    /\ eval_i = 2
    /\ evaluation_result = ToolResult(EvalFallbackLabelled)
    /\ confidence_scores = <<<<"PROJECT SCOPE", Dec(7)>>>>
    /\ validation_issues = <<>>

\* the generator's backing call failed: the draft is its error text
GeneratorFailed == requirements_doc.text = ErrorDoc

\* nothing else went wrong: no interrupt, no stop signal, and no failure
\* except the display of the draft or inside the DynamoDB part
NoOtherFailure ==
    \A n \in 1..Len(trace) :
        /\ trace[n].out \notin {"KeyboardInterrupt", "SystemExit"}
        /\ trace[n].out = "Exception" => trace[n].op \in InnerPcs \cup {"generate"}

Persisted(text) == db_items # <<>> => db_items[1].document = text

\* C26 as stated: whenever the generator's backing call failed, the run
\* ends with status=success and the output file and any persisted record
\* hold the generator's error text.
C26_ErrorTextAlwaysSaved ==
    (pc \in {"done", "exited"} /\ GeneratorFailed /\ NoOtherFailure) =>
        /\ result.status = "success"
        /\ files = <<ErrorDoc>>
        /\ Persisted(ErrorDoc)

\* C26 (amended): when the generator's backing call failed, the tool call
\* handed the error text back as a plain string and no review reply asked
\* for a change, the run ends with status=success after the review and
\* persistence checkpoints, and the output file and any persisted record
\* hold the error text.
C26_PlainErrorTextSaved ==
    (/\ pc \in {"done", "exited"}
     /\ GeneratorFailed
     /\ requirements_doc.kind = "str"
     /\ review_text = NoValue \/ KeepsDocument
     /\ NoOtherFailure) =>
        /\ result.status = "success"
        /\ files = <<ErrorDoc>>
        /\ Persisted(ErrorDoc)
        /\ Cardinality(BreakReturns) >= 2

\* such a run, with the error text put into the table
C26_Witness ==
    /\ pc = "done"
    /\ requirements_doc = StrVal(ErrorDoc)
    /\ KeepsDocument
    /\ NoOtherFailure
    /\ result.status = "success"
    /\ files = <<ErrorDoc>>
    /\ db_items # <<>>
    /\ db_items[1].document = ErrorDoc

PersistencePcs == {"db_table", "db_create", "db_put"}

\* C27: a failure of the retrieval for a section leaves the run at the
\* question of that same section, with no RunResult produced and the
\* Answers untouched, so that the section's checkpoint comes next; and every
\* step of the persistence part (schema check, schema creation, upsert),
\* failing or not, leads to the next persistence step or to the end of the
\* run with status=success, the output file being written already.
C27_ServiceFailureNeverAborts ==
    [][pc # "idle" =>
          /\ (pc = "section_kb" /\ trace' = Append(trace, Ev("kb", current_section, FALSE, "caught"))) =>
                /\ pc' = "section_ask"
                /\ current_section' = current_section
                /\ responses' = responses
                /\ result' = NoResult
          /\ pc \in PersistencePcs =>
                /\ Wrote
                /\ files' = files
                /\ \/ pc' \in PersistencePcs /\ result' = NoResult
                   \/ pc' = "done" /\ result' = Success(responses)]_vars

\* the retrieval failed for the first section, whose answer was stored all
\* the same, and the upsert failed at the end of a run that ended in success
C27_Witness ==
    /\ pc = "done"
    /\ result.status = "success"
    /\ trace[1] = Ev("kb", 0, FALSE, "caught")
    /\ responses[1] = <<"PROJECT SCOPE", <<"answer ", "1">>>>
    /\ trace[Len(trace)] = Ev("db_put", Len(SECTIONS) - 1, FALSE, "Exception")
    /\ files = <<ReqDoc>>
    /\ db_items = <<>>

\* the checkpoint an entry of the trace belongs to: the replies come in the
\* order five sections, additional information, review, persistence; an
\* entry of a checkpoint that raised carries the name of its step
CheckpointAt(n) ==
    IF trace[n].op = "handoff"
    THEN LET k == Cardinality(RepliesUpTo(n)) IN
         CASE k <= Len(SECTIONS)     -> "section_handoff"
           [] k = Len(SECTIONS) + 1  -> "additional_handoff"
           [] k = Len(SECTIONS) + 2  -> "review_handoff"
           [] OTHER                  -> "db_handoff"
    ELSE trace[n].op

\* C28: the checkpoints are invoked in the modes print_handoff_info states:
\* the five section checkpoints and the review checkpoint with
\* breakout_of_loop=False, and only the additional-information checkpoint
\* with breakout_of_loop=True.
C28_ModesAsPrinted ==
    \A n \in 1..Len(trace) :
        CheckpointAt(n) \in HandoffPcs =>
            (trace[n].brk <=> CheckpointAt(n) = "additional_handoff")

\* the text holds a labelled score and an M/10 form
HasBothForms(text) == FirstLabel(Lower(text)) # 0 /\ FirstSlash(Lower(text)) # 0

\* the number behind the label at index p of the lower-cased text
LabelledNumber(text, p) ==
    LET s == Lower(text)
        g == SpaceEnd(s, p + 2)
    IN Float(s, g, NumberEnd(s, g))

\* C29 as stated: on a text with both forms every call yields the number of
\* whichever occurrence starts first in the text, clamped to [0, 10].
C29_LeftmostOccurrenceWins ==
    \A k \in 1..Len(ext_outs) :
        (ext_in.kind # "dict_nocontent" /\ HasBothForms(ext_in.text)) =>
            ext_outs[k] = Clamp(ParsedScoreLeftmost(ext_in.text))

\* C29 (amended): on a text with both forms every call yields the number of
\* the first labelled occurrence, clamped to [0, 10], also when an M/10 form
\* stands before it; the M/10 form counts only in a text without a labelled
\* score, where the first M/10 form gives the number.
C29_LabelledBeforeSlash ==
    \A k \in 1..Len(ext_outs) :
        ext_in.kind # "dict_nocontent" =>
            LET s == Lower(ext_in.text) IN
            /\ \A p \in 1..Len(s) :
                  (LabelMatchAt(s, p) /\ \A r \in 1..(p - 1) : ~LabelMatchAt(s, r)) =>
                      ext_outs[k] = Clamp(LabelledNumber(ext_in.text, p))
            /\ \A q \in 1..Len(s) :
                  (/\ SlashMatchAt(s, q)
                   /\ \A r \in 1..(q - 1) : ~SlashMatchAt(s, r)
                   /\ \A r \in 1..Len(s) : ~LabelMatchAt(s, r)) =>
                      ext_outs[k] = Clamp(Float(s, q, NumberEnd(s, q)))

\* '4/10score: 2' was scored: the labelled 2 is the result, not the 4 that
\* stands first
C29_Witness ==
    /\ ext_in = StrVal(<<"4", "/", "1", "0", "score", ":", " ", "2">>)
    /\ ext_outs # <<>>
    /\ ext_outs[1] = Dec(2)

WriteAttempts == {n \in 1..Len(trace) : trace[n].op = "write"}

\* C30 as stated: a run that ended with status=success has written the
\* output file exactly once, and a run that ended with status=error has
\* left no output file.
C30_StatusTellsFile ==
    /\ result.status = "success" => (Len(files) = 1 /\ Cardinality(WriteAttempts) = 1)
    /\ result.status = "error" => files = <<>>

\* C30 (amended): a run that ended with status=success has written the
\* output file exactly once, and the file holds the final document; a run
\* that ended with status=error has left no file that holds a document:
\* its failure came before the file write, leaving no file, or was the
\* failure of the write itself, leaving the file just opened, empty, as the
\* last thing the run did.
C30_SuccessOneFileErrorNoDocument ==
    /\ result.status = "success" =>
          /\ files = <<Str(final_doc)>>
          /\ Cardinality(WriteAttempts) = 1
          /\ Wrote
    /\ result.status = "error" =>
          \/ files = <<>> /\ WriteAttempts = {}
          \/ /\ files = <<<<>>>>
             /\ WriteAttempts = {Len(trace)}
             /\ trace[Len(trace)].out = "Exception"

\* the write failed after the file was opened: status=error and an empty file
C30_Witness ==
    /\ pc = "done"
    /\ result.status = "error"
    /\ files = <<<<>>>>
    /\ trace[Len(trace)] = Ev("write", Len(SECTIONS) - 1, FALSE, "Exception")

\* C3: extract_confidence_score clamps out-of-range claims: on the text
\* 'confidence: 15/10' every call yields 10.0 and on '-3/10' every call
\* yields 0.0.  (Stated as claimed; the code yields 3.0 for '-3/10'.)
C3_ClampsOutOfRange ==
    \A k \in 1..Len(ext_outs) :
        /\ (ext_in.kind # "dict_nocontent" /\ ext_in.text = Conf15) => ext_outs[k] = Dec(10)
        /\ (ext_in.kind # "dict_nocontent" /\ ext_in.text = Neg3) => ext_outs[k] = Dec(0)

\* the text holds none of the two score patterns
NoScorePattern(text) ==
    \A p \in 1..Len(text) :
        ~LabelMatchAt(Lower(text), p) /\ ~SlashMatchAt(Lower(text), p)

\* C4 as claimed: any text containing 'Confidence Score: 8/10' yields 8.0 on
\* every call, and any text without a score pattern yields 7.0.
C4_AnyTextContaining ==
    \A k \in 1..Len(ext_outs) :
        /\ Contains(ext_in.text, ConfScore8) => ext_outs[k] = Dec(8)
        /\ NoScorePattern(ext_in.text) => ext_outs[k] = Dec(7)

\* 'Confidence Score: 8/10' occurs in the text and no labelled score
\* ('confidence:' or 'score:' and a number) starts before its label
FirstLabelledIsConfScore8(text) ==
    \E i \in 1..Len(text) :
        /\ StartsAt(text, i, ConfScore8)
        /\ \A q \in 1..(i + 1) : ~LabelMatchAt(Lower(text), q)

\* C4 (amended): a text in which 'Confidence Score: 8/10' is the first
\* labelled score yields exactly 8.0 on every repeated call, and a text with
\* no score pattern yields exactly the default 7.0 on every call.
C4_FirstLabelledScore ==
    \A k \in 1..Len(ext_outs) :
        /\ FirstLabelledIsConfScore8(ext_in.text) => ext_outs[k] = Dec(8)
        /\ NoScorePattern(ext_in.text) => ext_outs[k] = Dec(7)

\* witness of C4: two calls were made on a text that holds 'Confidence
\* Score: 8/10' behind an N/10 form, and two on a text without any pattern
C4_Witness ==
    /\ Len(ext_outs) >= 2
    /\ ext_in.text = <<"4", "/", "1", "0">> \o ConfScore8
    /\ ext_outs[1] = Dec(8) /\ ext_outs[2] = Dec(8)

\* C9: each query_knowledge_base, when the retrieval call returns an empty
\* result list, returns exactly 'No information found in the knowledge base
\* for this query.' and raises nothing.
C9_EmptyResultsLiteral ==
    (kb_pc = "done" /\ kb_env.kind \in {"response", "no_key"} /\ kb_env.results = <<>>)
        => (kb_ret = NoInfoDemo /\ kb_raised = "none")

\* C10: for a ClientError or any other exception raised by the retrieval
\* call, query_knowledge_base propagates nothing and returns a string that
\* contains 'Error querying knowledge base'.
C10_ErrorsBecomeText ==
    (kb_pc = "done" /\ kb_env.kind \in {"ClientError", "Exception"})
        => (kb_raised = "none" /\ Contains(kb_ret, <<"Error querying knowledge base">>))

=============================================================================
